---- MODULE Spec2Model ----
(***************************************************************************)
(* TinyCommon: base/circular_queue.h (a fixed-capacity ring buffer with    *)
(* overwrite-on-full push and copy-on-write storage) and base/lru_cache.h  *)
(* (an LRU cache bounded by element count and by an approximate memory     *)
(* budget).                                                                *)
(*                                                                         *)
(* SpecCQ  : circular_queue instances "a" and "b" used by threads.         *)
(* SpecLRU : one LRU_cache instance.                                       *)
(* SpecLock: the m_mutex protocol of the circular_queue calls, with fair    *)
(*           scheduling of the callers.                                     *)
(***************************************************************************)
EXTENDS Integers, Sequences, FiniteSets, TLC

\* ------------------------------------------------------------------ bounds
MaxCap == 2          \* BufSize ranges over 1..MaxCap
MaxVal == 2          \* element values pushed: 1..MaxVal
MaxThreads == 1      \* threads that can be inside a reading or copying call
MaxCount == 2        \* m_max_size ranges over 0..MaxCount
MaxGets == 2         \* get is called at most MaxGets times between resets
MaxCallers == 2      \* threads that call into the ring buffers in SpecLock

\* sizeof(value_type) for the LRU_cache<int, int> of the unit tests
SizeofValue == 4

\* ------------------------------------------------------- values and markers
Undef == 0           \* a slot of a default-initialised std::array
Fatal == -1          \* the call ended in a failed assert (abort)

Inst == {"a", "b"}
Threads == 1..MaxThreads
Callers == 1..MaxCallers
Vals == 1..MaxVal
BufIds == 1..(Cardinality(Inst) + MaxThreads + 1)

VARIABLES
    m_capacity,   \* BufSize, the same for every instance of the type
    life,         \* life[i]: "none" | "alive"
    cq,           \* cq[i]: [m_buffer, m_head, m_tail, m_isEmpty]
    store,        \* store[b]: the std::array behind buffer object b
    use_count,    \* use_count[b]: shared_ptr owners of buffer object b
    pc,           \* pc[t]: "idle" | "captured" (between _get_buffer and return)
    call,         \* call[t]: the source of t's call and what _get_buffer captured
    aborted,      \* an assert failed
    misuse,       \* history: the call whose precondition did not hold, or "none"
    abs,          \* history: abs[i] the FIFO sequence instance i stands for
    snapAbs,      \* history: abs of the source when thread t captured it
    snapArr,      \* history: the captured storage's slots when t captured it
    own,          \* history: own[i] elements of i after the last operation on i
    dup           \* history: [src, dst] of the last copy, while neither was mutated

VARIABLES
    m_list,             \* std::list of nodes, front (most recent) first, by node id
    m_node,             \* m_node[n]: the pair (first = key, second = value) in node n
    m_hash_table,       \* m_hash_table[k]: the list iterator (node id) of k, 0 if absent
    m_max_size,         \* most elements kept
    m_max_memory_size,  \* memory budget in bytes, 0 for none
    m_stats,            \* [m_get_cnt, m_hit_cnt]
    used,               \* history: keys by last push or successful get, latest first
    trace,              \* history: the pushes so far, while they are of distinct
    traceOk,            \*   keys into the new cache with no get between them
    twin,               \* history: a cache given the same calls except exists
    probed,             \* history: exists has been called
    window              \* history: [gets, hits] get calls and those that found
                        \*   their key, since construction or the last reset_stats;
                        \*   reset: no get was called since a reset_stats

lruvars == <<m_list, m_node, m_hash_table, m_max_size, m_max_memory_size, m_stats,
             used, trace, traceOk, twin, probed, window>>

VARIABLES
    holds,        \* holds[c]: the objects whose m_mutex caller c has locked
    cur           \* cur[c]: [op, src, dst, pc] the call caller c is in and where

lockvars == <<holds, cur>>

cqvars == <<m_capacity, life, cq, store, use_count, pc, call, aborted, misuse,
            abs, snapAbs, snapArr, own, dup>>

\* ------------------------------------------------------------ pure helpers
Idle == [op |-> "none", src |-> "a", dst |-> "a", pc |-> "idle"]
NoDup == [src |-> "none", dst |-> "none"]
NullCq == [m_buffer |-> 0, m_head |-> 0, m_tail |-> 0, m_isEmpty |-> TRUE]
NullCall == [from |-> "a", head |-> 0, tail |-> 0, isEmpty |-> TRUE, buffer |-> 0]
Blank == [k \in 0..(m_capacity - 1) |-> Undef]

_index_add(index, n) == (index + n) % m_capacity

_at(n, buffer) == store[buffer][n]

_get_size(head, tail, isEmpty) ==
    IF isEmpty = TRUE THEN 0
    ELSE IF tail >= head THEN tail - head + 1
    ELSE m_capacity - (head - tail - 1)

\* _get_buffer: what a reader captures under the lock
_get_buffer(i) ==
    [head |-> cq[i].m_head, tail |-> cq[i].m_tail,
     isEmpty |-> cq[i].m_isEmpty, buffer |-> cq[i].m_buffer]

\* shared_ptr::unique()
unique_always(b) == TRUE
unique(b) == use_count[b] = 1

FreeBufs == {b \in BufIds : use_count[b] = 0}
NewBuf == CHOOSE b \in FreeBufs : \A c \in FreeBufs : b <= c

\* Buffer objects are named by the first holder that points to them, in the
\* order a, b, thread 1, thread 2, ...: addresses carry no meaning, and an
\* object that nobody points to any more is destroyed.  Install sets the five
\* variables that mention buffer objects from their values cq1, pc1, call1,
\* st1, uc1 after a step.
Ptrs(cq1, pc1, call1) ==
    <<cq1["a"].m_buffer, cq1["b"].m_buffer>> \o
    [t \in Threads |-> IF pc1[t] = "captured" THEN call1[t].buffer ELSE 0]
FirstAt(ps, p) == CHOOSE j \in 1..Len(ps) : ps[j] = p /\ \A k \in 1..(j - 1) : ps[k] # p
Held(ps) == {ps[j] : j \in 1..Len(ps)} \ {0}
NewId(ps, p) ==
    IF p = 0 THEN 0
    ELSE Cardinality({q \in Held(ps) : FirstAt(ps, q) <= FirstAt(ps, p)})
OldId(ps, k) == CHOOSE p \in Held(ps) : NewId(ps, p) = k
Install(cq1, pc1, call1, st1, uc1) ==
    LET ps == Ptrs(cq1, pc1, call1)
        n == Cardinality(Held(ps))
    IN /\ cq' = [i \in Inst |-> [cq1[i] EXCEPT !.m_buffer = NewId(ps, @)]]
       /\ pc' = pc1
       /\ call' = [t \in Threads |->
                     IF pc1[t] = "captured"
                     THEN [call1[t] EXCEPT !.buffer = NewId(ps, @)] ELSE NullCall]
       /\ store' = [k \in BufIds |-> IF k <= n THEN st1[OldId(ps, k)] ELSE Blank]
       /\ use_count' = [k \in BufIds |-> IF k <= n THEN uc1[OldId(ps, k)] ELSE 0]

\* the index and flag updates of push_back and its one write, on a state st
\* whose storage is arr
push_back_state_keep_head(st, arr, from) ==
    LET tail1 == IF st.m_isEmpty = FALSE
                 THEN _index_add(st.m_tail, 1) ELSE st.m_tail
    IN [st |-> [st EXCEPT !.m_tail = tail1, !.m_isEmpty = FALSE],
        arr |-> [arr EXCEPT ![tail1] = from]]
push_back_state(st, arr, from) ==
    LET head1 == IF _index_add(st.m_tail, 1) = st.m_head
                 THEN _index_add(st.m_head, 1) ELSE st.m_head
        tail1 == IF st.m_isEmpty = FALSE
                 THEN _index_add(st.m_tail, 1) ELSE st.m_tail
    IN [st |-> [st EXCEPT !.m_head = head1, !.m_tail = tail1, !.m_isEmpty = FALSE],
        arr |-> [arr EXCEPT ![tail1] = from]]

\* the index and flag updates of pop and the slot it returns
pop_state_keep_tail(st) ==
    LET preHead == st.m_head
        head1 == _index_add(st.m_head, 1)
        reset == head1 = _index_add(st.m_tail, 1)
    IN [st |-> [st EXCEPT !.m_head = head1,
                          !.m_isEmpty = IF reset THEN TRUE ELSE @],
        slot |-> preHead]
pop_state_no_reset(st) ==
    [st |-> [st EXCEPT !.m_head = _index_add(st.m_head, 1)], slot |-> st.m_head]
pop_state(st) ==
    LET preHead == st.m_head
        head1 == _index_add(st.m_head, 1)
        reset == head1 = _index_add(st.m_tail, 1)
    IN [st |-> [st EXCEPT !.m_head = head1,
                          !.m_tail = IF reset THEN head1 ELSE @,
                          !.m_isEmpty = IF reset THEN TRUE ELSE @],
        slot |-> preHead]

\* what pop returns on state st with storage arr
pop_ret(st, arr) == IF st.m_isEmpty = FALSE THEN arr[pop_state(st).slot] ELSE Fatal

\* empty() of instance i
empty(i) == cq[i].m_isEmpty

\* what the reading calls return, from what _get_buffer captured
front_ret(c) == IF c.isEmpty = FALSE THEN _at(c.head, c.buffer) ELSE Fatal

\* back() indexes the captured storage with the member m_tail
back_ret(c, m_tail) == IF c.isEmpty = FALSE THEN _at(m_tail, c.buffer) ELSE Fatal

size_ret(c) == _get_size(c.head, c.tail, c.isEmpty)

at_ret_off_by_one(c, n) ==
    IF n <= _get_size(c.head, c.tail, c.isEmpty)
    THEN _at(_index_add(c.head, n), c.buffer) ELSE Fatal
at_ret(c, n) ==
    IF n < _get_size(c.head, c.tail, c.isEmpty)
    THEN _at(_index_add(c.head, n), c.buffer) ELSE Fatal

\* the elements a captured state designates, oldest first
Elems(c) == [k \in 1..size_ret(c) |-> at_ret(c, k - 1)]

\* the elements of instance i as a call with no other thread running reads them
Contents(i) == Elems(_get_buffer(i))

\* the elements of state st over storage arr
ElemsOf(st, arr) ==
    [k \in 1.._get_size(st.m_head, st.m_tail, st.m_isEmpty) |->
        arr[_index_add(st.m_head, k - 1)]]

\* ---------------------------------------------------- history (abstract FIFO)
AbsPush(s, v) == IF Len(s) >= m_capacity THEN Append(Tail(s), v) ELSE Append(s, v)
AbsNth(s, n) == IF 0 <= n /\ n < Len(s) THEN s[n + 1] ELSE Fatal

\* ------------------------------------------------------------------ SpecCQ
\* circular_queue() for instance a: a fresh buffer, head = tail = 0, empty;
\* instance b does not exist yet
InitQueues(caps) ==
    /\ m_capacity \in caps
    /\ life = [i \in Inst |-> IF i = "a" THEN "alive" ELSE "none"]
    /\ cq = [i \in Inst |-> IF i = "a" THEN [NullCq EXCEPT !.m_buffer = 1] ELSE NullCq]
    /\ store = [b \in BufIds |-> Blank]
    /\ use_count = [b \in BufIds |-> IF b = 1 THEN 1 ELSE 0]
    /\ pc = [t \in Threads |-> "idle"]
    /\ call = [t \in Threads |-> NullCall]
    /\ aborted = FALSE
    /\ misuse = "none"
    /\ abs = [i \in Inst |-> <<>>]
    /\ dup = NoDup
    /\ holds = [c \in Callers |-> {}]
    /\ cur = [c \in Callers |-> Idle]
    /\ snapAbs = [t \in Threads |-> <<>>]
    /\ snapArr = [t \in Threads |-> <<>>]
    /\ own = [i \in Inst |-> <<>>]

\* ----------------------------------------------------------------- LRU_cache
Keys == 1..(MaxCount + 1)
NodeIds == 1..(MaxCount + 1)
MemBudgets == 0..(MaxCount * SizeofValue + 1)
NoNode == [first |-> 0, second |-> 0]

\* LRU_cache(Size) and LRU_cache(Size, MemorySize): empty, counters zero
EmptyCache(Size, MemorySize) ==
    [m_list |-> <<>>, m_node |-> [n \in NodeIds |-> NoNode],
     m_hash_table |-> [k \in Keys |-> 0],
     m_max_size |-> Size, m_max_memory_size |-> MemorySize,
     m_stats |-> [m_get_cnt |-> 0, m_hit_cnt |-> 0]]

InitCache(sizes, budgets) ==
    /\ m_list = <<>>
    /\ m_node = [n \in NodeIds |-> NoNode]
    /\ m_hash_table = [k \in Keys |-> 0]
    /\ m_max_size \in sizes
    /\ m_max_memory_size \in budgets
    /\ m_stats = [m_get_cnt |-> 0, m_hit_cnt |-> 0]
    /\ used = <<>>
    /\ trace = <<>>
    /\ traceOk = TRUE
    /\ twin = EmptyCache(m_max_size, m_max_memory_size)
    /\ probed = FALSE
    /\ window = [gets |-> 0, hits |-> 0, reset |-> FALSE]

InitCQ == InitQueues(1..MaxCap) /\ InitCache({0}, {0})

\* history: instance i is mutated, assigned to or destroyed
Touched(i) == IF i = dup.src \/ i = dup.dst THEN NoDup ELSE dup

InUse(i) == \E t \in Threads : pc[t] = "captured" /\ call[t].from = i

\* ~circular_queue(): releases the instance's reference to its buffer
destruct(i) ==
    /\ ~aborted
    /\ life[i] = "alive"
    /\ ~InUse(i)
    /\ Install([cq EXCEPT ![i] = NullCq], pc, call, store,
               [use_count EXCEPT ![cq[i].m_buffer] = @ - 1])
    /\ life' = [life EXCEPT ![i] = "none"]
    /\ abs' = [abs EXCEPT ![i] = <<>>]
    /\ own' = [own EXCEPT ![i] = <<>>]
    /\ dup' = Touched(i)
    /\ UNCHANGED <<lruvars, lockvars, m_capacity, aborted, misuse, snapAbs, snapArr>>

\* if (!m_buffer.unique()) m_buffer.reset(new buffer_type(*m_buffer)):
\* the buffer the instance points to afterwards, and the counts
cow(i) ==
    LET old == cq[i].m_buffer
    IN IF ~unique(old)
       THEN [buf |-> NewBuf,
             uc |-> [[use_count EXCEPT ![old] = @ - 1] EXCEPT ![NewBuf] = 1]]
       ELSE [buf |-> old, uc |-> use_count]

\* push_back: copy on write, then the index updates and the write, all under
\* the instance's lock
push_back(i, from) ==
    /\ ~aborted
    /\ life[i] = "alive"
    /\ LET w == cow(i)
           r == push_back_state(cq[i], store[cq[i].m_buffer], from)
       IN /\ Install([cq EXCEPT ![i] = [r.st EXCEPT !.m_buffer = w.buf]], pc, call,
                     [store EXCEPT ![w.buf] = r.arr], w.uc)
          /\ own' = [own EXCEPT ![i] = ElemsOf(r.st, r.arr)]
    /\ abs' = [abs EXCEPT ![i] = AbsPush(@, from)]
    /\ dup' = Touched(i)
    /\ UNCHANGED <<lruvars, lockvars, m_capacity, life, aborted, misuse, snapAbs, snapArr>>

\* pop: copy on write, assert(m_isEmpty == false), then the index updates,
\* all under the instance's lock
pop(i) ==
    /\ ~aborted
    /\ life[i] = "alive"
    /\ LET w == cow(i)
           arr == store[cq[i].m_buffer]
           ok == pop_ret(cq[i], arr) # Fatal
           st1 == IF ok THEN pop_state(cq[i]).st ELSE cq[i]
       IN /\ Install([cq EXCEPT ![i] = [st1 EXCEPT !.m_buffer = w.buf]], pc, call,
                     [store EXCEPT ![w.buf] = arr], w.uc)
          /\ aborted' = ~ok
          /\ own' = [own EXCEPT ![i] = ElemsOf(st1, arr)]
    /\ misuse' = IF abs[i] = <<>> THEN "pop" ELSE misuse
    /\ abs' = [abs EXCEPT ![i] = IF @ # <<>> THEN Tail(@) ELSE @]
    /\ dup' = Touched(i)
    /\ UNCHANGED <<lruvars, lockvars, m_capacity, life, snapAbs, snapArr>>

\* the first statement of front, back, size, operator[], operator= and the
\* copy constructor alike: _get_buffer on the source i, under i's lock
get_buffer(t, i) ==
    /\ ~aborted
    /\ pc[t] = "idle"
    /\ life[i] = "alive"
    /\ LET g == _get_buffer(i)
       IN /\ Install(cq, [pc EXCEPT ![t] = "captured"],
                     [call EXCEPT ![t] = [from |-> i, head |-> g.head, tail |-> g.tail,
                                          isEmpty |-> g.isEmpty, buffer |-> g.buffer]],
                     store, [use_count EXCEPT ![g.buffer] = @ + 1])
          /\ snapArr' = [snapArr EXCEPT ![t] = store[g.buffer]]
    /\ snapAbs' = [snapAbs EXCEPT ![t] = abs[i]]
    /\ UNCHANGED <<lruvars, lockvars, m_capacity, life, aborted, misuse, abs, own, dup>>

\* the rest of a reading call: the assert, the copy of the element out of the
\* captured storage (raw), and the release of the captured reference
Return(t, op, raw, exp) ==
    /\ ~aborted
    /\ pc[t] = "captured"
    /\ aborted' = (raw = Fatal)
    /\ misuse' = IF exp = Fatal THEN op ELSE misuse
    /\ Install(cq, [pc EXCEPT ![t] = "idle"], call, store,
               [use_count EXCEPT ![call[t].buffer] = @ - 1])
    /\ snapAbs' = [snapAbs EXCEPT ![t] = <<>>]
    /\ snapArr' = [snapArr EXCEPT ![t] = <<>>]
    /\ UNCHANGED <<lruvars, lockvars, m_capacity, life, abs, own, dup>>

front(t) == Return(t, "front", front_ret(call[t]), AbsNth(snapAbs[t], 0))

back(t) ==
    Return(t, "back", back_ret(call[t], cq[call[t].from].m_tail),
           AbsNth(snapAbs[t], Len(snapAbs[t]) - 1))

size(t) == Return(t, "size", size_ret(call[t]), Len(snapAbs[t]))

at(t, n) == Return(t, "at", at_ret(call[t], n), AbsNth(snapAbs[t], n))

\* the rest of operator= (dst alive) and of the copy constructor (dst new),
\* under dst's lock: m_buffer.reset(new buffer_type(*buffer)), the captured
\* indices, and the release of the captured reference
copy_from_alias(t, dst) ==
    LET c == call[t]
        uc2 == IF life[dst] = "alive"
               THEN [use_count EXCEPT ![cq[dst].m_buffer] = @ - 1] ELSE use_count
        uc3 == [uc2 EXCEPT ![c.buffer] = @ - 1]
        st1 == [m_buffer |-> c.buffer, m_head |-> c.head,
                m_tail |-> c.tail, m_isEmpty |-> c.isEmpty]
    IN /\ ~aborted
       /\ pc[t] = "captured"
       /\ Install([cq EXCEPT ![dst] = st1], [pc EXCEPT ![t] = "idle"], call, store, uc3)
       /\ life' = [life EXCEPT ![dst] = "alive"]
       /\ abs' = [abs EXCEPT ![dst] = snapAbs[t]]
       /\ own' = [own EXCEPT ![dst] = ElemsOf(st1, store[c.buffer])]
       /\ dup' = IF c.from # dst /\ cq[c.from].m_buffer = c.buffer
                 THEN [src |-> c.from, dst |-> dst] ELSE Touched(dst)
       /\ snapAbs' = [snapAbs EXCEPT ![t] = <<>>]
       /\ snapArr' = [snapArr EXCEPT ![t] = <<>>]
       /\ UNCHANGED <<lruvars, lockvars, m_capacity, aborted, misuse>>
copy_from(t, dst) ==
    LET c == call[t]
        uc1 == [use_count EXCEPT ![NewBuf] = 1]
        uc2 == IF life[dst] = "alive"
               THEN [uc1 EXCEPT ![cq[dst].m_buffer] = @ - 1] ELSE uc1
        uc3 == [uc2 EXCEPT ![c.buffer] = @ - 1]
        st1 == [m_buffer |-> NewBuf, m_head |-> c.head,
                m_tail |-> c.tail, m_isEmpty |-> c.isEmpty]
    IN /\ ~aborted
       /\ pc[t] = "captured"
       /\ Install([cq EXCEPT ![dst] = st1], [pc EXCEPT ![t] = "idle"], call,
                  [store EXCEPT ![NewBuf] = store[c.buffer]], uc3)
       /\ life' = [life EXCEPT ![dst] = "alive"]
       /\ abs' = [abs EXCEPT ![dst] = snapAbs[t]]
       /\ own' = [own EXCEPT ![dst] = ElemsOf(st1, store[c.buffer])]
       /\ dup' = IF c.from # dst /\ cq[c.from].m_buffer = c.buffer
                 THEN [src |-> c.from, dst |-> dst] ELSE Touched(dst)
       /\ snapAbs' = [snapAbs EXCEPT ![t] = <<>>]
       /\ snapArr' = [snapArr EXCEPT ![t] = <<>>]
       /\ UNCHANGED <<lruvars, lockvars, m_capacity, aborted, misuse>>

\* circular_queue& operator=(const circular_queue& from), from captured
assign(t, dst) == life[dst] = "alive" /\ copy_from(t, dst)

\* circular_queue(const circular_queue& from), from captured
copy_construct(t, dst) == life[dst] = "none" /\ copy_from(t, dst)

NextCQ ==
    \/ \E i \in Inst \ {"a"} : destruct(i)
    \/ \E i \in Inst, v \in Vals : push_back(i, v)
    \/ \E i \in Inst : pop(i)
    \/ \E t \in Threads, i \in Inst : get_buffer(t, i)
    \/ \E t \in Threads : front(t)
    \/ \E t \in Threads : back(t)
    \/ \E t \in Threads : size(t)
    \/ \E t \in Threads, n \in 0..(m_capacity + 1) : at(t, n)
    \/ \E t \in Threads, dst \in Inst : assign(t, dst)
    \/ \E t \in Threads, dst \in Inst : copy_construct(t, dst)

vars == <<cqvars, lruvars, lockvars>>

SpecCQ == InitCQ /\ [][NextCQ]_vars

\* ----------------------------------------------------------------- SpecSeq
\* one instance used by one thread: no call starts while another is running
Quiet == \A t \in Threads : pc[t] = "idle"

NextSeq ==
    \/ \E v \in Vals : Quiet /\ push_back("a", v)
    \/ Quiet /\ pop("a")
    \/ Quiet /\ get_buffer(1, "a")
    \/ front(1)
    \/ back(1)
    \/ size(1)
    \/ \E n \in 0..(m_capacity + 1) : at(1, n)
    \/ assign(1, "a")

SpecSeq == InitCQ /\ [][NextSeq]_vars

\* ----------------------------------------------------------------- SpecLRU
\* the cache as one value
Cache == [m_list |-> m_list, m_node |-> m_node, m_hash_table |-> m_hash_table,
          m_max_size |-> m_max_size, m_max_memory_size |-> m_max_memory_size,
          m_stats |-> m_stats]

\* m_hash_table.find(key) != m_hash_table.end()
Found(c, key) == c.m_hash_table[key] # 0

_get_cache_size(c) == Cardinality({k \in Keys : Found(c, k)})

_get_memory_size(c) == _get_cache_size(c) * SizeofValue

\* m_list.splice(m_list.begin(), m_list, it): node it moves to the front
splice(list, it) == <<it>> \o SelectSeq(list, LAMBDA n : n # it)

\* a free list node: the node of lowest id that is not linked
NewNode(c) ==
    CHOOSE n \in NodeIds :
        /\ \A j \in 1..Len(c.m_list) : c.m_list[j] # n
        /\ \A m \in NodeIds : (\A j \in 1..Len(c.m_list) : c.m_list[j] # m) => n <= m

_discard_list_only(c) ==
    LET ite_list_last == c.m_list[Len(c.m_list)]
    IN [c EXCEPT !.m_list = SubSeq(@, 1, Len(@) - 1),
                 !.m_node[ite_list_last] = NoNode]
_discard_first(c) ==
    LET it == c.m_list[1]
    IN [c EXCEPT !.m_hash_table[c.m_node[it].first] = 0,
                 !.m_list = Tail(@),
                 !.m_node[it] = NoNode]
_discard_one_elem(c) ==
    LET ite_list_last == c.m_list[Len(c.m_list)]
    IN [c EXCEPT !.m_hash_table[c.m_node[ite_list_last].first] = 0,
                 !.m_list = SubSeq(@, 1, Len(@) - 1),
                 !.m_node[ite_list_last] = NoNode]

\* the insert or update of push, before the eviction step
push_insert_no_move(c, key, value) ==
    IF ~Found(c, key)
    THEN LET n == NewNode(c)
         IN [c EXCEPT !.m_list = <<n>> \o @,
                      !.m_node[n] = [first |-> key, second |-> value],
                      !.m_hash_table[key] = n]
    ELSE LET it == c.m_hash_table[key]
         IN [c EXCEPT !.m_node[it].second = value]
push_insert(c, key, value) ==
    IF ~Found(c, key)
    THEN LET n == NewNode(c)
         IN [c EXCEPT !.m_list = <<n>> \o @,
                      !.m_node[n] = [first |-> key, second |-> value],
                      !.m_hash_table[key] = n]
    ELSE LET it == c.m_hash_table[key]
         IN [c EXCEPT !.m_node[it].second = value,
                      !.m_list = splice(@, it)]

\* the condition of the eviction step of push
MustDiscard_both(c) ==
    /\ _get_cache_size(c) > c.m_max_size
    /\ (c.m_max_memory_size # 0 /\ _get_memory_size(c) > c.m_max_memory_size)
MustDiscard(c) ==
    \/ _get_cache_size(c) > c.m_max_size
    \/ (c.m_max_memory_size # 0 /\ _get_memory_size(c) > c.m_max_memory_size)

push_state(c, key, value) ==
    LET c1 == push_insert(c, key, value)
    IN IF MustDiscard(c1) THEN _discard_one_elem(c1) ELSE c1

\* the keys of the pairs linked in m_list
ListKeys(c) == {c.m_node[c.m_list[j]].first : j \in 1..Len(c.m_list)}

\* greatest common divisor
RECURSIVE Gcd(_, _)
Gcd(x, y) == IF y = 0 THEN x ELSE Gcd(y, x % y)

\* get_hit_rate: static_cast<double>(m_hit_cnt) / static_cast<double>(m_get_cnt),
\* the quotient as a fraction in lowest terms; 0.0 / 0.0 is a NaN
get_hit_rate(c) ==
    LET hit == c.m_stats.m_hit_cnt
        cnt == c.m_stats.m_get_cnt
    IN IF cnt = 0
       THEN [nan |-> TRUE, num |-> 0, den |-> 0]
       ELSE [nan |-> FALSE, num |-> hit \div Gcd(hit, cnt), den |-> cnt \div Gcd(hit, cnt)]

\* get: the cache afterwards, the value returned and the value handed out
get_state_hit_first(c, key) ==
    LET counted == [c EXCEPT !.m_stats.m_get_cnt = @ + 1, !.m_stats.m_hit_cnt = @ + 1]
    IN IF ~Found(c, key)
       THEN [c |-> counted, ret |-> FALSE, value |-> 0]
       ELSE LET it == c.m_hash_table[key]
            IN [c |-> [counted EXCEPT !.m_list = splice(@, it)],
                ret |-> TRUE, value |-> c.m_node[it].second]
get_state_hits_only(c, key) ==
    IF ~Found(c, key)
    THEN [c |-> c, ret |-> FALSE, value |-> 0]
    ELSE LET it == c.m_hash_table[key]
         IN [c |-> [c EXCEPT !.m_stats.m_get_cnt = @ + 1,
                             !.m_stats.m_hit_cnt = @ + 1,
                             !.m_list = splice(@, it)],
             ret |-> TRUE, value |-> c.m_node[it].second]
get_state_no_splice(c, key) ==
    LET counted == [c EXCEPT !.m_stats.m_get_cnt = @ + 1]
    IN IF ~Found(c, key)
       THEN [c |-> counted, ret |-> FALSE, value |-> 0]
       ELSE [c |-> [counted EXCEPT !.m_stats.m_hit_cnt = @ + 1],
             ret |-> TRUE, value |-> c.m_node[c.m_hash_table[key]].second]
get_state(c, key) ==
    LET counted == [c EXCEPT !.m_stats.m_get_cnt = @ + 1]
    IN IF ~Found(c, key)
       THEN [c |-> counted, ret |-> FALSE, value |-> 0]
       ELSE LET it == c.m_hash_table[key]
            IN [c |-> [counted EXCEPT !.m_stats.m_hit_cnt = @ + 1,
                                      !.m_list = splice(@, it)],
                ret |-> TRUE, value |-> c.m_node[it].second]

\* the caller's variable bound to the parameter value of get, after the call:
\* assigned (value = ite->second->second) only on the path that returns true
get_out(c, key, value) ==
    IF get_state(c, key).ret THEN get_state(c, key).value ELSE value

SetCache(c) ==
    /\ m_list' = c.m_list
    /\ m_node' = c.m_node
    /\ m_hash_table' = c.m_hash_table
    /\ m_stats' = c.m_stats
    /\ m_max_size' = c.m_max_size
    /\ m_max_memory_size' = c.m_max_memory_size

\* history: key k was used just now
Touch(k) == <<k>> \o SelectSeq(used, LAMBDA x : x # k)
TraceKeys == {trace[j].key : j \in 1..Len(trace)}

push(key, value) ==
    /\ SetCache(push_state(Cache, key, value))
    /\ used' = Touch(key)
    /\ IF traceOk /\ key \notin TraceKeys /\ Len(trace) <= m_max_size
       THEN /\ trace' = Append(trace, [key |-> key, value |-> value])
            /\ traceOk' = TRUE
       ELSE /\ trace' = <<>>
            /\ traceOk' = FALSE
    /\ twin' = push_state(twin, key, value)
    /\ UNCHANGED <<cqvars, lockvars, probed, window>>

get(key) ==
    /\ m_stats.m_get_cnt < MaxGets
    /\ SetCache(get_state(Cache, key).c)
    /\ used' = IF get_state(Cache, key).ret THEN Touch(key) ELSE used
    /\ trace' = <<>>
    /\ traceOk' = FALSE
    /\ twin' = get_state(twin, key).c
    /\ window' = [gets |-> window.gets + 1,
                  hits |-> window.hits + (IF key \in ListKeys(Cache) THEN 1 ELSE 0),
                  reset |-> FALSE]
    /\ UNCHANGED <<cqvars, lockvars, probed>>

\* exists: the cache afterwards and the value returned
exists_state_touch(c, key) ==
    IF ~Found(c, key)
    THEN [c |-> c, ret |-> FALSE]
    ELSE [c |-> [c EXCEPT !.m_list = splice(@, c.m_hash_table[key])], ret |-> TRUE]
exists_state(c, key) ==
    LET ite == c.m_hash_table[key]
    IN [c |-> c, ret |-> IF ite = 0 THEN FALSE ELSE TRUE]

exists(key) ==
    /\ SetCache(exists_state(Cache, key).c)
    /\ probed' = TRUE
    /\ UNCHANGED <<cqvars, lockvars, used, trace, traceOk, twin,
                   window>>

reset_stats_state_clear(c) ==
    [c EXCEPT !.m_stats = [m_get_cnt |-> 0, m_hit_cnt |-> 0],
              !.m_list = <<>>,
              !.m_node = [n \in NodeIds |-> NoNode],
              !.m_hash_table = [k \in Keys |-> 0]]
reset_stats_state(c) == [c EXCEPT !.m_stats = [m_get_cnt |-> 0, m_hit_cnt |-> 0]]

reset_stats ==
    /\ SetCache(reset_stats_state(Cache))
    /\ twin' = reset_stats_state(twin)
    /\ window' = [gets |-> 0, hits |-> 0, reset |-> TRUE]
    /\ UNCHANGED <<cqvars, lockvars, used, trace, traceOk, probed>>

NextLRU ==
    \/ \E key \in Keys, value \in Vals : push(key, value)
    \/ \E key \in Keys : get(key)
    \/ \E key \in Keys : exists(key)
    \/ reset_stats

InitLRU == InitQueues({1}) /\ InitCache(0..MaxCount, MemBudgets)

SpecLRU == InitLRU /\ [][NextLRU]_vars

\* ---------------------------------------------------------------- SpecLock
\* The calls of circular_queue by the order in which they lock and unlock
\* m_mutex.  "new" is the object a copy constructor is building: no other
\* caller can reach its mutex.  Instances a and b both exist throughout.
\* What the calls do to the storage and the indices is in SpecCQ; the code
\* under a lock is straight-line (no loop, no wait, no second lock), so here
\* it is one step that leaves the data alone.
Readers == {"front", "back", "size", "at"}
Writers == {"push_back", "pop"}
Copiers == {"assign", "copy_construct"}

\* std::mutex::lock on the mutex of object i by caller c: blocks while held
Free(i) == i = "new" \/ \A c \in Callers : i \notin holds[c]

\* the locks a caller holds when _get_buffer has returned: its lock_guard
\* is a local of _get_buffer
after_get_buffer_held(h, src) == h
after_get_buffer(h, src) == h \ {src}

\* a caller enters push_back or pop on instance i
call_writer(c, op, i) ==
    /\ cur[c].pc = "idle"
    /\ cur' = [cur EXCEPT ![c] = [op |-> op, src |-> i, dst |-> i, pc |-> "lock"]]
    /\ UNCHANGED <<cqvars, lruvars, holds>>

\* a caller enters front, back, size or operator[] on instance i
call_reader(c, op, i) ==
    /\ cur[c].pc = "idle"
    /\ cur' = [cur EXCEPT ![c] = [op |-> op, src |-> i, dst |-> i, pc |-> "get_buffer"]]
    /\ UNCHANGED <<cqvars, lruvars, holds>>

\* a caller enters dst = src, or the copy constructor of a new object from src
call_copier(c, op, src, dst) ==
    /\ cur[c].pc = "idle"
    /\ op = "copy_construct" <=> dst = "new"
    /\ cur' = [cur EXCEPT ![c] = [op |-> op, src |-> src, dst |-> dst,
                                   pc |-> "get_buffer"]]
    /\ UNCHANGED <<cqvars, lruvars, holds>>

\* empty() and capacity(): no lock
call_unlocked(c) ==
    /\ cur[c].pc = "idle"
    /\ cur' = [cur EXCEPT ![c] = [op |-> "empty", src |-> "a", dst |-> "a",
                                   pc |-> "body"]]
    /\ UNCHANGED <<cqvars, lruvars, holds>>

\* std::lock_guard<std::mutex> lck(m_mutex) in _get_buffer, on the source
lock_source(c) ==
    /\ cur[c].pc = "get_buffer"
    /\ Free(cur[c].src)
    /\ holds' = [holds EXCEPT ![c] = @ \cup {cur[c].src}]
    /\ cur' = [cur EXCEPT ![c].pc = "in_get_buffer"]
    /\ UNCHANGED <<cqvars, lruvars>>

\* _get_buffer returns
get_buffer_return(c) ==
    /\ cur[c].pc = "in_get_buffer"
    /\ holds' = [holds EXCEPT ![c] = after_get_buffer(@, cur[c].src)]
    /\ cur' = [cur EXCEPT ![c].pc = "captured"]
    /\ UNCHANGED <<cqvars, lruvars>>

\* std::lock_guard<std::mutex> lck(m_mutex) of push_back and pop, and of
\* operator= and the copy constructor after _get_buffer, on this
lock_this(c) ==
    /\ \/ cur[c].op \in Writers /\ cur[c].pc = "lock"
       \/ cur[c].op \in Copiers /\ cur[c].pc = "captured"
    /\ Free(cur[c].dst)
    /\ holds' = [holds EXCEPT ![c] = @ \cup {cur[c].dst}]
    /\ cur' = [cur EXCEPT ![c].pc = "body"]
    /\ UNCHANGED <<cqvars, lruvars>>

\* the call returns: the reader after its copy out of the captured storage,
\* the others at the end of the scope of their lock_guard
call_return(c) ==
    /\ \/ cur[c].op \in Readers /\ cur[c].pc = "captured"
       \/ cur[c].pc = "body"
    /\ holds' = [holds EXCEPT ![c] = {}]
    /\ cur' = [cur EXCEPT ![c] = Idle]
    /\ UNCHANGED <<cqvars, lruvars>>

\* the steps of a call that caller c has entered
Step(c) == lock_source(c) \/ get_buffer_return(c) \/ lock_this(c) \/ call_return(c)

NextLock ==
    \/ \E c \in Callers, op \in Writers, i \in Inst : call_writer(c, op, i)
    \/ \E c \in Callers, op \in Readers, i \in Inst : call_reader(c, op, i)
    \/ \E c \in Callers, op \in Copiers, src \in Inst, dst \in Inst \cup {"new"} :
           call_copier(c, op, src, dst)
    \/ \E c \in Callers : call_unlocked(c)
    \/ \E c \in Callers : lock_source(c)
    \/ \E c \in Callers : get_buffer_return(c)
    \/ \E c \in Callers : lock_this(c)
    \/ \E c \in Callers : call_return(c)

\* fair scheduling: a caller inside a call that can take a step again and
\* again does take one
FairLock == \A c \in Callers : SF_vars(Step(c))

InitLock == InitQueues({1}) /\ InitCache({0}, {0})

SpecLock == InitLock /\ [][NextLock]_vars /\ FairLock

Alive == {i \in Inst : life[i] = "alive"}
Captured == {t \in Threads : pc[t] = "captured"}

TypeCQ ==
    /\ \A i \in Alive : use_count[cq[i].m_buffer] >= 1
    /\ \A t \in Captured : use_count[call[t].buffer] >= 1
    /\ FreeBufs # {}

\* ------------------------------------------------------------------ claims

RECURSIVE PushAll(_, _, _)
PushAll(st, arr, vs) ==
    IF vs = <<>> THEN [st |-> st, arr |-> arr]
    ELSE LET r == push_back_state(st, arr, Head(vs))
         IN PushAll(r.st, r.arr, Tail(vs))

SizeOf(st) == _get_size(st.m_head, st.m_tail, st.m_isEmpty)

\* C2: from an empty buffer of capacity C, C push_back calls give size() = C;
\* the (C+1)-th leaves size() = C and makes front() the second value pushed.
C2_OverwriteOnFull ==
    \A i \in Alive :
        abs[i] = <<>> =>
            \A vs \in [1..(m_capacity + 1) -> Vals] :
                LET arr == store[cq[i].m_buffer]
                    full == PushAll(cq[i], arr, SubSeq(vs, 1, m_capacity))
                    over == PushAll(cq[i], arr, vs)
                IN /\ SizeOf(full.st) = m_capacity
                   /\ SizeOf(over.st) = m_capacity
                   /\ ElemsOf(over.st, over.arr)[1] = vs[2]

\* C2 witness: a buffer that is empty again after pushes and pops moved its
\* head off slot 0, so the C+1 pushes start in the middle of the storage
C2_Witness ==
    /\ abs["a"] = <<>>
    /\ cq["a"].m_head # 0
    /\ store[cq["a"].m_buffer][0] # Undef

RECURSIVE PopAll(_, _, _)
PopAll(st, arr, n) ==
    IF n = 0 THEN [st |-> st, out |-> <<>>]
    ELSE LET rest == PopAll(pop_state(st).st, arr, n - 1)
         IN [st |-> rest.st, out |-> <<pop_ret(st, arr)>> \o rest.out]

\* C3: from a non-empty buffer, size() calls of pop return the surviving
\* values oldest first, and after the last of them the buffer is empty.
C3_DrainByPop ==
    \A i \in Alive :
        abs[i] # <<>> =>
            LET r == PopAll(cq[i], store[cq[i].m_buffer], size_ret(_get_buffer(i)))
            IN /\ r.out = abs[i]
               /\ r.st.m_isEmpty = TRUE
               /\ SizeOf(r.st) = 0

\* C3 witness: a buffer to drain that holds several values and has wrapped
C3_Witness ==
    /\ Len(abs["a"]) > 1
    /\ cq["a"].m_tail < cq["a"].m_head
    /\ abs["a"][1] # abs["a"][2]

C5_CopyIndependence == \A i \in Alive : Contents(i) = own[i]

\* C5 witness: b was copied from a, and the two have come to differ
C5_Witness ==
    /\ Alive = Inst
    /\ abs["b"] # <<>>
    /\ abs["a"] # <<>>
    /\ abs["a"] # abs["b"]

\* C6: what front, operator[], size, the copy constructor and operator= make
\* of a captured state is what the source held when it was captured, whatever
\* push_back and pop did to the source since.
C6_SnapshotReads ==
    \A t \in Captured :
        LET c == call[t]
        IN /\ front_ret(c) = AbsNth(snapAbs[t], 0)
           /\ size_ret(c) = Len(snapAbs[t])
           /\ \A n \in 0..(m_capacity + 1) : at_ret(c, n) = AbsNth(snapAbs[t], n)
           /\ Elems(c) = snapAbs[t]

\* C6 witness: a reader holds a non-empty captured state and its source has
\* changed since
C6_Witness ==
    \E t \in Captured :
        /\ snapAbs[t] # <<>>
        /\ abs[call[t].from] # snapAbs[t]
        /\ abs[call[t].from] # <<>>

\* C7: back() returns the newest element of the state it captured.
C7_BackReturnsCapturedNewest ==
    \A t \in Captured :
        back_ret(call[t], cq[call[t].from].m_tail)
            = AbsNth(snapAbs[t], Len(snapAbs[t]) - 1)

\* C8: a storage object a reader holds is never written: its slots are those
\* it had at the capture, and an instance that still points to it has not
\* been mutated since; every write went to a private clone.
C8_CopyOnWrite ==
    \A t \in Captured :
        /\ store[call[t].buffer] = snapArr[t]
        /\ \A i \in Alive :
               cq[i].m_buffer = call[t].buffer =>
                   /\ i = call[t].from
                   /\ _get_buffer(i) = [head |-> call[t].head, tail |-> call[t].tail,
                                        isEmpty |-> call[t].isEmpty,
                                        buffer |-> call[t].buffer]

\* C8 witness: the source of a reader has been written since the capture, in
\* a clone of the storage the reader holds
C8_Witness ==
    \E t \in Captured :
        /\ cq[call[t].from].m_buffer # call[t].buffer
        /\ store[cq[call[t].from].m_buffer] # snapArr[t]

Present(c) == {k \in Keys : Found(c, k)}

\* the statement of C9 for a run of pushes of distinct keys into the new cache
C9_FirstKeyEvicted ==
    (traceOk /\ Len(trace) = m_max_size + 1) =>
        /\ ~get_state(Cache, trace[1].key).ret
        /\ \A j \in 2..Len(trace) :
               /\ Found(Cache, trace[j].key)
               /\ get_state(Cache, trace[j].key).ret
               /\ get_state(Cache, trace[j].key).value = trace[j].value

\* C9 as claimed: with max_count = N and any memory budget, N+1 pushes of
\* distinct keys into the empty cache, no get between them, evict exactly the
\* first key pushed; the other N are retrievable with their values.
C9_AnyBudget == C9_FirstKeyEvicted

\* C9 amended: the same, for a cache whose memory budget is disabled (0) or
\* at least N * sizeof(value_type).
C9_CountEviction ==
    (m_max_memory_size = 0 \/ m_max_memory_size >= m_max_size * SizeofValue) =>
        C9_FirstKeyEvicted

\* C9 witness: N+1 distinct keys were pushed into a cache of N >= 2 elements
\* with a memory budget that N elements fit
C9_Witness ==
    /\ traceOk
    /\ Len(trace) = m_max_size + 1
    /\ m_max_size >= 2
    /\ m_max_memory_size = m_max_size * SizeofValue

\* the key of S used longest ago, by the history of uses
Oldest(order, S) ==
    LET at_ == {j \in 1..Len(order) : order[j] \in S}
    IN order[CHOOSE j \in at_ : \A k \in at_ : k <= j]

\* C10: with two or more entries, a successful get(k) makes k the most
\* recently used, so that the push of a new key that follows does not evict
\* k; and the key a push evicts is the one whose last push or successful get
\* is the oldest.
C10_RecencyProtection ==
    /\ Len(m_list) >= 2 =>
         \A k \in Present(Cache) :
             LET g == get_state(Cache, k)
             IN /\ g.ret
                /\ g.c.m_node[g.c.m_list[1]].first = k
                /\ \A j \in Keys \ Present(Cache), v \in Vals :
                       Found(push_state(g.c, j, v), k)
    /\ \A key \in Keys, v \in Vals :
           LET before == Present(Cache) \cup {key}
               gone == before \ Present(push_state(Cache, key, v))
           IN /\ Cardinality(gone) <= 1
              /\ \A e \in gone : e = Oldest(Touch(key), before)

\* C10 witness: a full cache of two or more entries whose most recently used
\* key was last used by a successful get
C10_Witness ==
    /\ m_max_size >= 2
    /\ Len(m_list) = m_max_size
    /\ m_stats.m_hit_cnt > 0
    /\ ~traceOk
    /\ used[1] = m_node[m_list[1]].first
    /\ used[1] < m_node[m_list[2]].first

\* the keys a push of (key, value) removes from cache c
Evicted(c, key, value) == (Present(c) \cup {key}) \ Present(push_state(c, key, value))

\* C11: exists is a pure query. exists(k) answers whether k is cached and
\* leaves the recency list, the index, the stored values, get_count and
\* hit_count as they were, for present and absent k; so a cache that also
\* received exists calls is in the state of its twin that received the same
\* push, get and reset_stats calls only, and the two evict the same keys on
\* every following push.
C11_ExistsIsPure ==
    /\ \A k \in Keys :
           /\ exists_state(Cache, k).c = Cache
           /\ exists_state(Cache, k).ret = (k \in {m_node[m_list[j]].first : j \in 1..Len(m_list)})
    /\ Cache = twin
    /\ \A k \in Keys, v \in Vals : Evicted(Cache, k, v) = Evicted(twin, k, v)

\* C11 witness: exists was called on a cache of two entries that is full, so
\* that the next push of a new key evicts
C11_Witness ==
    /\ probed
    /\ Len(m_list) = 2
    /\ m_max_size = 2
    /\ m_stats.m_hit_cnt > 0

\* C12: the counters are exact and cumulative. get_count is the number of
\* get calls and hit_count the number of get calls that found their key since
\* construction or the last reset_stats; push and exists (evictions included)
\* change neither; hit_count <= get_count; and after at least one get the
\* hit rate reported is hit_count / get_count of that window.
C12_ExactHitStatistics ==
    /\ m_stats.m_get_cnt = window.gets
    /\ m_stats.m_hit_cnt = window.hits
    /\ m_stats.m_hit_cnt <= m_stats.m_get_cnt
    /\ \A k \in Keys :
           /\ exists_state(Cache, k).c.m_stats = m_stats
           /\ \A v \in Vals : push_state(Cache, k, v).m_stats = m_stats
    /\ window.gets > 0 =>
           LET rate == get_hit_rate(Cache)
           IN /\ ~rate.nan
              /\ rate.den > 0
              /\ rate.num * window.gets = rate.den * window.hits

\* C12 witness: one hit out of two gets, on a cache that has evicted
C12_Witness ==
    /\ window.gets = 2
    /\ window.hits = 1
    /\ get_hit_rate(Cache) = [nan |-> FALSE, num |-> 1, den |-> 2]
    /\ Len(used) > Len(m_list)

\* C13: reset_stats sets get_count and hit_count to 0 and leaves the recency
\* list (keys, values, order), the index, max_count and max_memory as they
\* were.
C13_ResetStatsFrame ==
    [][(window'.reset /\ ~window.reset) =>
          /\ m_stats' = [m_get_cnt |-> 0, m_hit_cnt |-> 0]
          /\ m_list' = m_list
          /\ m_node' = m_node
          /\ m_hash_table' = m_hash_table
          /\ m_max_size' = m_max_size
          /\ m_max_memory_size' = m_max_memory_size]_vars

\* C13 witness: reset_stats was called, no get was called since, and the
\* cache holds two entries
C13_Witness ==
    /\ window.reset
    /\ m_stats = [m_get_cnt |-> 0, m_hit_cnt |-> 0]
    /\ Len(m_list) = 2
    /\ used[1] = m_node[m_list[1]].first
    /\ ~traceOk

\* C14: list and index are consistent in every state reached by push, get,
\* exists and reset_stats: the keys of the index are the keys of the list,
\* every key is in the list exactly once, and the index entry of a key
\* designates the list entry that carries this key.
C14_ListIndexConsistent ==
    /\ Present(Cache) = ListKeys(Cache)
    /\ \A i, j \in 1..Len(m_list) :
           i # j => /\ m_list[i] # m_list[j]
                    /\ m_node[m_list[i]].first # m_node[m_list[j]].first
    /\ \A k \in Present(Cache) :
           /\ \E j \in 1..Len(m_list) : m_list[j] = m_hash_table[k]
           /\ m_node[m_hash_table[k]].first = k
    /\ _get_cache_size(Cache) = Len(m_list)

\* C14 witness: a cache of two entries that has evicted a key and has had a
\* hit, with the key used last at the head in the node allocated later
C14_Witness ==
    /\ Len(m_list) = 2
    /\ Len(used) > 2
    /\ m_stats.m_hit_cnt > 0
    /\ m_hash_table[used[1]] = m_list[1]
    /\ m_list[1] > m_list[2]

\* the statement of C15 for the push of (k, v) in the current state
PresentAfterPush ==
    \A k \in Keys, v \in Vals :
        LET c == push_state(Cache, k, v)
        IN /\ exists_state(c, k).ret
           /\ get_state(c, k).ret
           /\ get_state(c, k).value = v
           /\ c.m_node[c.m_list[1]] = [first |-> k, second |-> v]

\* C15 as claimed: for max_count >= 1 and any memory budget, right after
\* push(k, v) returns exists(k) is true and get(k) succeeds and yields v; the
\* eviction step of the push does not remove k.
C15_AnyBudget == m_max_size >= 1 => PresentAfterPush

\* C15 amended: the same, for max_count >= 1 and a memory budget that is
\* disabled (0) or at least sizeof(value_type).
C15_PresentAfterPush ==
    (m_max_size >= 1 /\ (m_max_memory_size = 0 \/ m_max_memory_size >= SizeofValue))
        => PresentAfterPush

\* C15 witness: the second push of a new key into a cache of max_count 2
\* whose budget holds one value has just returned: it has evicted the first
\* key and kept its own
C15_Witness ==
    /\ traceOk
    /\ Len(trace) = 2
    /\ m_max_size = 2
    /\ m_max_memory_size = SizeofValue
    /\ Len(m_list) = 1
    /\ m_node[m_list[1]] = [first |-> trace[2].key, second |-> trace[2].value]

\* C16: a push removes an entry if and only if, after its insert or update,
\* count > max_count or (max_memory # 0 and count * S > max_memory); it then
\* removes exactly one entry, the tail of the recency list, from the list and
\* from the index; with max_memory = 0 the memory condition never evicts.
C16_DualTrigger ==
    \A k \in Keys, v \in Vals :
        LET c1 == push_insert(Cache, k, v)
            c2 == push_state(Cache, k, v)
            count == Len(c1.m_list)
            last == c1.m_node[c1.m_list[count]].first
            overCount == count > m_max_size
            overMemory == m_max_memory_size # 0 /\ count * SizeofValue > m_max_memory_size
        IN /\ (overCount \/ overMemory) =>
                /\ c2.m_list = SubSeq(c1.m_list, 1, count - 1)
                /\ Present(c2) = Present(c1) \ {last}
                /\ ListKeys(c2) = ListKeys(c1) \ {last}
                /\ Cardinality(Present(c2)) = Cardinality(Present(c1)) - 1
           /\ ~(overCount \/ overMemory) => c2 = c1
           /\ (m_max_memory_size = 0 /\ ~overCount) => c2 = c1

\* C16 witness: a push has just evicted on the memory condition alone: the
\* cache may count 2 entries, its budget holds one, and the second push of a
\* new key has returned
C16_Witness ==
    /\ traceOk
    /\ Len(trace) = 2
    /\ m_max_size = 2
    /\ m_max_memory_size = SizeofValue + 1
    /\ ListKeys(Cache) = {trace[2].key}

\* cache c is over a bound
OverBound(c) ==
    \/ Len(c.m_list) > c.m_max_size
    \/ (c.m_max_memory_size # 0 /\ Len(c.m_list) * SizeofValue > c.m_max_memory_size)

\* the cache after the pushes ps[1], ..., ps[n] into cache c, in this order
RECURSIVE PushRun(_, _, _)
PushRun(c, ps, n) ==
    IF n = 0 THEN c
    ELSE LET before == PushRun(c, ps, n - 1)
         IN push_state(before, ps[n][1], ps[n][2])

\* C17 as claimed: starting from an empty cache, there are a setting of the
\* bounds and a sequence of pushes such that the cache is over a bound when a
\* push returns and is still over it when the next push returns.
C17_StaysOverBound ==
    Cache = EmptyCache(m_max_size, m_max_memory_size) =>
        \E Size \in 0..MaxCount, MemorySize \in MemBudgets, n \in 1..(MaxCount + 1) :
            \E ps \in [1..(n + 1) -> Keys \X Vals] :
                /\ OverBound(PushRun(EmptyCache(Size, MemorySize), ps, n))
                /\ OverBound(PushRun(EmptyCache(Size, MemorySize), ps, n + 1))

\* C17 amended: single-step eviction never leaves the cache over a bound.
\* Starting from an empty cache, whenever push returns count <= max_count
\* and, with a memory budget configured, count * S <= max_memory.
C17_NeverOverBound ==
    /\ ~OverBound(Cache)
    /\ \A k \in Keys, v \in Vals : ~OverBound(push_state(Cache, k, v))

\* C17 witness: the third push of a new key into a cache of max_count 2 whose
\* budget holds two values has returned, and the cache holds two entries
C17_Witness ==
    /\ traceOk
    /\ Len(trace) = 3
    /\ m_max_size = 2
    /\ m_max_memory_size = 2 * SizeofValue + 1
    /\ Len(m_list) = 2
    /\ ~Found(Cache, trace[1].key)

\* the keys of cache c in list order, and the value stored under key k
KeySeq(c) == [j \in 1..Len(c.m_list) |-> c.m_node[c.m_list[j]].first]
ValueOf(c, k) == c.m_node[c.m_hash_table[k]].second

\* C18: push(k, v2) for a cached k is an update in place: it replaces the
\* value of k by v2, moves k to the head of the recency list, keeps the order
\* of the other entries and their values, adds no entry, and then runs the
\* eviction step of any push.
C18_PushUpdatesInPlace ==
    \A k \in Present(Cache), v2 \in Vals :
        LET c1 == push_insert(Cache, k, v2)
            c2 == push_state(Cache, k, v2)
            n == Len(c1.m_list)
        IN /\ KeySeq(c1) = <<k>> \o SelectSeq(KeySeq(Cache), LAMBDA x : x # k)
           /\ ValueOf(c1, k) = v2
           /\ \A j \in Present(Cache) \ {k} : ValueOf(c1, j) = ValueOf(Cache, j)
           /\ Present(c1) = Present(Cache)
           /\ n = Len(m_list)
           /\ IF OverBound(c1)
              THEN /\ KeySeq(c2) = SubSeq(KeySeq(c1), 1, n - 1)
                   /\ Present(c2) = Present(c1) \ {KeySeq(c1)[n]}
              ELSE c2 = c1

\* C18 witness: into a cache of two entries, with no get so far, a key was
\* pushed again: the entry made first is at the head
C18_Witness ==
    /\ m_max_size = 2
    /\ Len(m_list) = 2
    /\ Len(used) = 2
    /\ window.gets = 0
    /\ ~window.reset
    /\ ~traceOk
    /\ m_list[1] < m_list[2]
    /\ used[1] = m_node[m_list[1]].first

\* what a caller may hold in the variable it passes to get
OutVals == Vals \cup {-1}

\* C19: a miss is a normal outcome. get(k) for an absent k returns false,
\* adds one to get_count, leaves hit_count, the recency order, the index and
\* the stored values as they were and does not touch the caller's value;
\* exists(k) answers false; nothing aborts.
C19_MissIsNormal ==
    /\ \A k \in Keys \ ListKeys(Cache) :
           LET g == get_state(Cache, k)
           IN /\ g.ret = FALSE
              /\ g.c.m_stats.m_get_cnt = m_stats.m_get_cnt + 1
              /\ g.c.m_stats.m_hit_cnt = m_stats.m_hit_cnt
              /\ g.c.m_list = m_list
              /\ g.c.m_node = m_node
              /\ g.c.m_hash_table = m_hash_table
              /\ \A out \in OutVals : get_out(Cache, k, out) = out
              /\ exists_state(Cache, k).ret = FALSE
    /\ aborted = FALSE

\* C19 witness: a cache of two entries on which get was called and every
\* get so far has missed
C19_Witness ==
    /\ window.gets >= 1
    /\ window.hits = 0
    /\ m_stats.m_get_cnt = window.gets
    /\ m_stats.m_hit_cnt = 0
    /\ Len(m_list) = 2
    /\ aborted = FALSE

\* C20: the ring-buffer indices are well formed in every state reached by
\* push_back, pop, copy construction and assignment: head and tail are in
\* [0, capacity); with the empty flag set head = tail, so that the next
\* push_back gives size 1 with front = back = the pushed value; with the
\* flag clear the size computed from head and tail is in [1, capacity]; and
\* empty() is true exactly when size() is 0.
C20_IndexInvariants ==
    \A i \in Alive :
        LET st == cq[i]
            sz == _get_size(st.m_head, st.m_tail, st.m_isEmpty)
        IN /\ st.m_head \in 0..(m_capacity - 1)
           /\ st.m_tail \in 0..(m_capacity - 1)
           /\ st.m_isEmpty => st.m_head = st.m_tail
           /\ st.m_isEmpty =>
                  \A v \in Vals :
                      LET p == push_back_state(st, store[st.m_buffer], v)
                      IN /\ _get_size(p.st.m_head, p.st.m_tail, p.st.m_isEmpty) = 1
                         /\ p.arr[p.st.m_head] = v
                         /\ p.arr[p.st.m_tail] = v
           /\ ~st.m_isEmpty => sz \in 1..m_capacity
           /\ empty(i) <=> (size_ret(_get_buffer(i)) = 0)

\* C20 witness: instance a is empty again after the pop of its only element,
\* with head = tail = 1, and instance b, a copy, holds two elements that wrap
\* around the end of the storage
C20_Witness ==
    /\ m_capacity = 2
    /\ life["b"] = "alive"
    /\ cq["a"] = [cq["a"] EXCEPT !.m_head = 1, !.m_tail = 1, !.m_isEmpty = TRUE]
    /\ cq["b"] = [cq["b"] EXCEPT !.m_head = 1, !.m_tail = 0, !.m_isEmpty = FALSE]
    /\ Len(abs["b"]) = 2
    /\ ~aborted

====
